---- MODULE Spec2Model ----
(***************************************************************************)
(* Personal finance tracker (src/app.py): the two JSON record collections, *)
(* the request handlers that write them, historical/live price resolution, *)
(* investment enrichment and the consolidated activity feed.               *)
(*                                                                         *)
(* Conventions of the model                                                *)
(*  - text that the code parses or compares (date strings) is a sequence   *)
(*    of ASCII codes, so that strptime and the string order of sort() are  *)
(*    computed as the code computes them;                                  *)
(*  - money and prices are integers in thousandths (1.0 is 1000); `units`, *)
(*    a float quotient in the code, is kept as the exact fraction num/den; *)
(*  - Python's None for a price is the value None (-1), distinct from 0.   *)
(***************************************************************************)
EXTENDS Integers, Sequences, FiniteSets, TLC

VARIABLES
    transactions,   \* content of data/transactions.json (a list of records)
    investments,    \* content of data/investments.json (a list of records)
    nextId,         \* source of fresh ids (uuid4 never repeats)
    resp,           \* what the last completed request computed and returned
    pc,             \* interleaved writers: position of each request thread
    local,          \* interleaved writers: the thread's request and loaded list
    added,          \* interleaved writers: ids of acknowledged adds
    deleted         \* interleaved writers: ids of acknowledged deletes

vars == <<transactions, investments, nextId, resp, pc, local, added, deleted>>

(***************************************************************************)
(* Bounds of the model.                                                    *)
(***************************************************************************)
MaxTrans == 2       \* transactions held by the store
MaxInv == 2         \* investments held by the store
MaxIds == 3         \* ids handed out in one behaviour
MaxReqs == 2        \* requests served by each interleaved writer thread

(***************************************************************************)
(* Text.                                                                   *)
(***************************************************************************)
None == -1

\* '0'..'9' are 48..57 and '-' is 45
IsDigit(c) == c \in 48..57

\* the form values used as dates
Str_2024_10_01 == <<50, 48, 50, 52, 45, 49, 48, 45, 48, 49>>     \* "2024-10-01" Tue
Str_2024_9_30 == <<50, 48, 50, 52, 45, 57, 45, 51, 48>>          \* "2024-9-30"  Mon
Str_2024_09_30 == <<50, 48, 50, 52, 45, 48, 57, 45, 51, 48>>     \* "2024-09-30" Mon
Str_2024_09_29 == <<50, 48, 50, 52, 45, 48, 57, 45, 50, 57>>     \* "2024-09-29" Sun
Str_2024_09_28 == <<50, 48, 50, 52, 45, 48, 57, 45, 50, 56>>     \* "2024-09-28" Sat
Str_2024_02_30 == <<50, 48, 50, 52, 45, 48, 50, 45, 51, 48>>     \* "2024-02-30"
Str_bad == <<98, 97, 100>>                                       \* "bad"
Str_empty == <<>>                                                \* ""

\* Python's str < str: lexicographic on code points, a proper prefix is smaller
RECURSIVE StrLess(_, _)
StrLess(a, b) ==
    IF b = <<>> THEN FALSE
    ELSE IF a = <<>> THEN TRUE
    ELSE IF Head(a) # Head(b) THEN Head(a) < Head(b)
    ELSE StrLess(Tail(a), Tail(b))

\* str.upper() / str.lower() on the ticker values of the model
Upper(s) ==
    CASE s = "n/a" -> "N/A"
      [] s = "abc" -> "ABC"
      [] OTHER -> s

Lower(s) ==
    CASE s = "N/A" -> "n/a"
      [] s = "ABC" -> "abc"
      [] OTHER -> s

(***************************************************************************)
(* datetime: strptime(s, '%Y-%m-%d'), toordinal, fromordinal, weekday,     *)
(* strftime('%Y-%m-%d').                                                   *)
(***************************************************************************)
IsLeap(y) == (y % 4 = 0) /\ ((y % 100 # 0) \/ (y % 400 = 0))

DaysInMonth(y, m) ==
    IF m = 2 THEN (IF IsLeap(y) THEN 29 ELSE 28)
    ELSE IF m \in {4, 6, 9, 11} THEN 30 ELSE 31

DaysBeforeMonth(y, m) ==
    <<0, 31, 59, 90, 120, 151, 181, 212, 243, 273, 304, 334>>[m]
        + (IF m > 2 /\ IsLeap(y) THEN 1 ELSE 0)

DaysBeforeYear(y) ==
    LET p == y - 1 IN p * 365 + (p \div 4) - (p \div 100) + (p \div 400)

NoDate == [ok |-> FALSE, y |-> 0, m |-> 0, d |-> 0]

\* the digits of s from position i, n of them, as a number
NumAt(s, i, n) ==
    IF n = 1 THEN s[i] - 48 ELSE (s[i] - 48) * 10 + (s[i + 1] - 48)

\* s is \d\d\d\d-<ml digits>-<dl digits> and nothing else
Shape(s, ml, dl) ==
    /\ Len(s) = 6 + ml + dl
    /\ \A i \in 1..4 : IsDigit(s[i])
    /\ s[5] = 45
    /\ \A i \in 6..(5 + ml) : IsDigit(s[i])
    /\ s[6 + ml] = 45
    /\ \A i \in (7 + ml)..(6 + ml + dl) : IsDigit(s[i])

\* datetime.strptime(s, '%Y-%m-%d'): %Y is four digits, %m is 1[0-2]|0[1-9]|[1-9],
\* %d is 3[01]|[12]\d|0[1-9]|[1-9]; then the date must exist. Not ok = ValueError.
strptime(s) ==
    LET fits == {p \in {<<1, 1>>, <<1, 2>>, <<2, 1>>, <<2, 2>>} : Shape(s, p[1], p[2])}
    IN  IF fits = {} THEN NoDate
        ELSE LET p == CHOOSE q \in fits : TRUE
                 y == (s[1] - 48) * 1000 + (s[2] - 48) * 100 + (s[3] - 48) * 10 + (s[4] - 48)
                 m == NumAt(s, 6, p[1])
                 d == NumAt(s, 7 + p[1], p[2])
             IN  IF y >= 1 /\ m \in 1..12 /\ d >= 1 /\ d <= DaysInMonth(y, m)
                 THEN [ok |-> TRUE, y |-> y, m |-> m, d |-> d]
                 ELSE NoDate

toordinal(dt) == DaysBeforeYear(dt.y) + DaysBeforeMonth(dt.y, dt.m) + dt.d

\* date.weekday(): Monday is 0, Saturday 5, Sunday 6
weekday(dt) == (toordinal(dt) + 6) % 7

\* datetime.fromordinal (CPython's _ord2ymd), used for start_date + timedelta(days=k)
fromordinal(ord) ==
    LET n0 == ord - 1
        n400 == n0 \div 146097
        r400 == n0 % 146097
        n100 == r400 \div 36524
        r100 == r400 % 36524
        n4 == r100 \div 1461
        r4 == r100 % 1461
        n1 == r4 \div 365
        n == r4 % 365
        year == n400 * 400 + 1 + n100 * 100 + n4 * 4 + n1
    IN  IF n1 = 4 \/ n100 = 4
        THEN [ok |-> TRUE, y |-> year - 1, m |-> 12, d |-> 31]
        ELSE LET leap == n1 = 3 /\ (n4 # 24 \/ n100 = 3)
                 m0 == (n + 50) \div 32
                 pre0 == <<0, 31, 59, 90, 120, 151, 181, 212, 243, 273, 304, 334>>[m0]
                             + (IF m0 > 2 /\ leap THEN 1 ELSE 0)
                 month == IF pre0 > n THEN m0 - 1 ELSE m0
                 pre == IF pre0 > n
                        THEN pre0 - (DaysInMonth(year, m0 - 1))
                        ELSE pre0
             IN  [ok |-> TRUE, y |-> year, m |-> month, d |-> n - pre + 1]

\* dt + timedelta(days=k)
plusdays(dt, k) == fromordinal(toordinal(dt) + k)

\* dt.strftime('%Y-%m-%d'): zero padded
strftime(dt) ==
    <<48 + (dt.y \div 1000), 48 + ((dt.y \div 100) % 10), 48 + ((dt.y \div 10) % 10),
      48 + (dt.y % 10), 45, 48 + (dt.m \div 10), 48 + (dt.m % 10), 45,
      48 + (dt.d \div 10), 48 + (dt.d % 10)>>

(***************************************************************************)
(* The remote price service (yfinance).  A market is the daily closes the  *)
(* service holds for the one real ticker of the model: market[day] is the  *)
(* close of the session of that ordinal day, or None when there was none.  *)
(***************************************************************************)
MarketDays == (toordinal(strptime(Str_2024_09_28)) - 4)..(toordinal(strptime(Str_2024_10_01)) + 1)

IsWeekend(day) == (day + 6) % 7 \in {5, 6}

TradingDays == {day \in MarketDays : ~IsWeekend(day)}

\* a close that tells the sessions apart
CloseOf(day) == 1000 * (1 + day - toordinal(strptime(Str_2024_09_28)) + 4)

Markets == {[day \in MarketDays |-> IF day \in S THEN CloseOf(day) ELSE None] : S \in SUBSET TradingDays}

\* yf.download(ticker, start=..., end=...)['Close']: the closes of the sessions
\* dated in [start, end), oldest first
download(market, start_str, end_str) ==
    LET s == toordinal(strptime(start_str))
        e == toordinal(strptime(end_str))
        days == {day \in DOMAIN market : day >= s /\ day < e /\ market[day] # None}
        nth(i) == CHOOSE day \in days : Cardinality({x \in days : x < day}) = i - 1
    IN  [i \in 1..Cardinality(days) |-> market[nth(i)]]

\* get_historical_price(ticker, date_str); raises says which download call, if
\* any, throws ("first", "second", "none")
get_historical_price(ticker, date_str, market, raises) ==
    IF ticker = "" \/ Lower(ticker) = "n/a" THEN 1000
    ELSE LET start_date == strptime(date_str)
         IN  IF ~start_date.ok THEN None
             ELSE LET end_date == plusdays(start_date, 2)
                      first == download(market, strftime(start_date), strftime(end_date))
                      prev_day_start == plusdays(start_date, -4)
                      second == download(market, strftime(prev_day_start), strftime(end_date))
                  IN  IF raises = "first" THEN None
                      ELSE IF first = <<>>
                           THEN IF raises = "second" THEN None
                                ELSE IF second = <<>> THEN None
                                ELSE second[Len(second)]
                           ELSE first[1]

(***************************************************************************)
(* Request forms.  float() of a form value: the numeric texts of the model *)
(* in thousandths, ValueError (not ok) for anything else.                  *)
(***************************************************************************)
float(s) ==
    CASE s = "1500" -> [ok |-> TRUE, val |-> 1500000]
      [] s = "-500" -> [ok |-> TRUE, val |-> -500000]
      [] s = "25" -> [ok |-> TRUE, val |-> 25000]
      [] s = "40" -> [ok |-> TRUE, val |-> 40000]
      [] OTHER -> [ok |-> FALSE, val |-> 0]

\* line 212: the create is refused when no historical price was found
PriceMissingSkipped(purchase_price) == FALSE

PriceMissing(purchase_price) == purchase_price = None

\* line 216: units = amount_invested / purchase_price if purchase_price > 0 else 0
UnitsOf(amount_invested, purchase_price) ==
    IF purchase_price > 0
    THEN [num |-> amount_invested, den |-> purchase_price]
    ELSE [num |-> 0, den |-> 1]

\* a list without the records of the given id
RECURSIVE WithoutId(_, _)
WithoutId(records, id) ==
    IF records = <<>> THEN <<>>
    ELSE IF Head(records).id = id THEN WithoutId(Tail(records), id)
    ELSE <<Head(records)>> \o WithoutId(Tail(records), id)

(***************************************************************************)
(* The write handlers, one request served at a time.                       *)
(***************************************************************************)
\* POST /transactions
transactions_page(form) ==
    /\ Len(transactions) < MaxTrans
    /\ nextId <= MaxIds
    /\ LET amount == float(form.amount)
           new_trans == [id |-> nextId, date |-> form.date,
                         description |-> form.description, category |-> form.category,
                         type |-> form.type, amount |-> amount.val]
       IN  IF ~amount.ok
           THEN /\ resp' = [op |-> "add_transaction", status |-> 500]
                /\ UNCHANGED <<transactions, nextId>>
           ELSE /\ transactions' = Append(transactions, new_trans)
                /\ nextId' = nextId + 1
                /\ resp' = [op |-> "add_transaction", status |-> 302]
    /\ UNCHANGED <<investments, pc, local, added, deleted>>

\* POST /investments
investments_page_POST(form, market, raises) ==
    /\ Len(investments) < MaxInv
    /\ nextId <= MaxIds
    /\ LET ticker == Upper(form.ticker)
           amount_invested == float(form.amount_invested)
           purchase_price == get_historical_price(ticker, form.purchase_date, market, raises)
           new_inv == [id |-> nextId, purchase_date |-> form.purchase_date,
                       name |-> form.name, ticker |-> ticker, type |-> form.type,
                       amount_invested |-> amount_invested.val,
                       purchase_price |-> purchase_price,
                       units |-> UnitsOf(amount_invested.val, purchase_price)]
       IN  IF ~amount_invested.ok
           THEN /\ resp' = [op |-> "add_investment", status |-> 500]
                /\ UNCHANGED <<investments, nextId>>
           ELSE IF PriceMissing(purchase_price)
           THEN /\ resp' = [op |-> "add_investment", status |-> 302, flash |-> "danger",
                            purchase_price |-> purchase_price]
                /\ UNCHANGED <<investments, nextId>>
           ELSE /\ investments' = Append(investments, new_inv)
                /\ nextId' = nextId + 1
                /\ resp' = [op |-> "add_investment", status |-> 302, flash |-> "success",
                            purchase_price |-> purchase_price]
    /\ UNCHANGED <<transactions, pc, local, added, deleted>>

\* POST /delete_transaction/<transaction_id>
delete_transaction(transaction_id) ==
    /\ transactions' = WithoutId(transactions, transaction_id)
    /\ resp' = [op |-> "delete_transaction", status |-> 302]
    /\ UNCHANGED <<investments, nextId, pc, local, added, deleted>>

\* POST /delete_investment/<investment_id>
delete_investment(investment_id) ==
    /\ investments' = WithoutId(investments, investment_id)
    /\ resp' = [op |-> "delete_investment", status |-> 302]
    /\ UNCHANGED <<transactions, nextId, pc, local, added, deleted>>

(***************************************************************************)
(* GET /consolidated_view                                                  *)
(***************************************************************************)
\* lines 244-245: an absent or empty query parameter gives no bound (None)
BoundOf(date_str) ==
    IF date_str = Str_empty
    THEN [present |-> FALSE, dt |-> NoDate]
    ELSE [present |-> TRUE, dt |-> strptime(date_str)]

\* datetime >= datetime and datetime <= datetime
NotBeforeStrict(dt, start_date) == toordinal(dt) > toordinal(start_date)

NotBefore(dt, start_date) == toordinal(dt) >= toordinal(start_date)

NotAfter(dt, end_date) == toordinal(dt) <= toordinal(end_date)

\* the condition of the two list comprehensions (lines 252-253, 259-260)
InRange(date_str, start, end) ==
    /\ (~start.present \/ NotBefore(strptime(date_str), start.dt))
    /\ (~end.present \/ NotAfter(strptime(date_str), end.dt))

\* strptime raises ValueError while the request is served: a malformed query
\* parameter, or a stored date that has to be parsed and cannot be
ViewRaises(start, end) ==
    \/ start.present /\ ~start.dt.ok
    \/ end.present /\ ~end.dt.ok
    \/ /\ start.present \/ end.present
       /\ \/ \E k \in 1..Len(transactions) : ~strptime(transactions[k].date).ok
          \/ \E k \in 1..Len(investments) : ~strptime(investments[k].purchase_date).ok

RECURSIVE SumOf(_)
SumOf(numbers) == IF numbers = <<>> THEN 0 ELSE Head(numbers) + SumOf(Tail(numbers))

Amounts(records) == [k \in 1..Len(records) |-> records[k].amount]

Abs(x) == IF x < 0 THEN -x ELSE x

IsIncome(t) == t.type = "Income"

IsNotIncome(t) == t.type # "Income"

\* lines 279-280
TotalIncome(filtered_transactions) ==
    SumOf(Amounts(SelectSeq(filtered_transactions, IsIncome)))

\* lines 281-282 and abs() of line 301
TotalExpensesUnfiltered(filtered_transactions) ==
    Abs(SumOf(Amounts(SelectSeq(transactions, IsNotIncome))))

TotalExpenses(filtered_transactions) ==
    Abs(SumOf(Amounts(SelectSeq(filtered_transactions, IsNotIncome))))

\* line 294
TotalInvested(filtered_investments) ==
    SumOf([k \in 1..Len(filtered_investments) |-> filtered_investments[k].amount_invested])

\* lines 270-278
TransactionActivity(t) ==
    [id |-> t.id, source |-> "transaction", date |-> t.date,
     description |-> t.description, category |-> t.category, type |-> t.type,
     amount |-> t.amount]

\* lines 285-293
InvestmentActivity(i) ==
    [id |-> i.id, source |-> "investment", date |-> i.purchase_date,
     description |-> i.name, category |-> "Investment", type |-> "Investment",
     amount |-> -i.amount_invested]

\* list.sort(key=lambda x: x['date'], reverse=True): the keys are the date
\* strings; the sort is stable, and reverse=True keeps equal keys in their
\* original order.  Each activity goes behind every one whose key is not smaller.
RECURSIVE InsertByDateDesc(_, _)
InsertByDateDesc(sorted, a) ==
    IF sorted = <<>> THEN <<a>>
    ELSE IF StrLess(Head(sorted).date, a.date) THEN <<a>> \o sorted
    ELSE <<Head(sorted)>> \o InsertByDateDesc(Tail(sorted), a)

RECURSIVE SortByDateDesc(_)
SortByDateDesc(activities) ==
    IF activities = <<>> THEN <<>>
    ELSE InsertByDateDesc(SortByDateDesc(SubSeq(activities, 1, Len(activities) - 1)),
                          activities[Len(activities)])

\* consolidated_view() over the given collections and query parameters
Consolidate(trans, invs, start_date_str, end_date_str) ==
    LET start_date == BoundOf(start_date_str)
        end_date == BoundOf(end_date_str)
        KeepT(t) == InRange(t.date, start_date, end_date)
        KeepI(i) == InRange(i.purchase_date, start_date, end_date)
        filtered_transactions == SelectSeq(trans, KeepT)
        filtered_investments == SelectSeq(invs, KeepI)
        all_activities ==
            [k \in 1..Len(filtered_transactions) |-> TransactionActivity(filtered_transactions[k])]
            \o [k \in 1..Len(filtered_investments) |-> InvestmentActivity(filtered_investments[k])]
    IN  [op |-> "view", status |-> 200,
         activities |-> SortByDateDesc(all_activities),
         total_income |-> TotalIncome(filtered_transactions),
         total_expenses |-> TotalExpenses(filtered_transactions),
         total_invested |-> TotalInvested(filtered_investments),
         start_date |-> start_date_str, end_date |-> end_date_str]

consolidated_view(start_date_str, end_date_str) ==
    /\ resp' = IF ViewRaises(BoundOf(start_date_str), BoundOf(end_date_str))
               THEN [op |-> "view", status |-> 500,
                     start_date |-> start_date_str, end_date |-> end_date_str]
               ELSE Consolidate(transactions, investments, start_date_str, end_date_str)
    /\ UNCHANGED <<transactions, investments, nextId, pc, local, added, deleted>>

(***************************************************************************)
(* Live prices and enrichment (GET /investments).                          *)
(***************************************************************************)
\* what one yf.Ticker(ticker).info lookup does: it raises, or it yields the
\* quoted price, None when the fields are missing
Quotes ==
    {[raises |-> TRUE, price |-> None], [raises |-> FALSE, price |-> None],
     [raises |-> FALSE, price |-> 0], [raises |-> FALSE, price |-> 1500]}

\* get_live_price(ticker)
get_live_price(ticker, quote) ==
    IF ticker = "" \/ Lower(ticker) = "n/a" THEN 1000
    ELSE IF quote.raises THEN 0
    ELSE IF quote.price # None /\ quote.price # 0 THEN quote.price
    ELSE 0

\* round(num/den, 2) of a value in thousandths: the nearest hundredth, a tie
\* going to the even one
Round2(num, den) ==
    LET d == den * 10
        q == num \div d
        r == num % d
    IN  IF 2 * r < d THEN 10 * q
        ELSE IF 2 * r > d THEN 10 * (q + 1)
        ELSE IF q % 2 = 0 THEN 10 * q ELSE 10 * (q + 1)

\* lines 97-101
TaxStatus(type, holding_months) ==
    IF type = "Stock" THEN (IF holding_months > 12 THEN "LTCG" ELSE "STCG")
    ELSE IF type = "Mutual Fund" THEN (IF holding_months > 12 THEN "LTCG" ELSE "STCG")
    ELSE "N/A"

\* one pass of the loop of enrich_investments_data (lines 88-111)
EnrichOne(inv, quote, now) ==
    LET current_price == get_live_price(inv.ticker, quote)
        units == inv.units
        \* current_value as the fraction num/den
        value_num == IF current_price # 0 THEN units.num * current_price ELSE 0
        value_den == IF current_price # 0 THEN units.den ELSE 1
        gain_num == value_num - inv.amount_invested * value_den
        purchase_date == strptime(inv.purchase_date)
        holding_months == (now.y - purchase_date.y) * 12 + now.m - purchase_date.m
    IN  [id |-> inv.id, purchase_date |-> inv.purchase_date, name |-> inv.name,
         ticker |-> inv.ticker, type |-> inv.type,
         amount_invested |-> inv.amount_invested,
         purchase_price |-> inv.purchase_price, units |-> inv.units,
         current_price |-> Round2(current_price, 1),
         current_value |-> Round2(value_num, value_den),
         gain_loss |-> Round2(gain_num, value_den),
         holding_months |-> holding_months,
         tax_status |-> TaxStatus(inv.type, holding_months)]

\* strptime of line 94 raises ValueError on a stored purchase_date it cannot parse
EnrichRaises(invs) == \E k \in 1..Len(invs) : ~strptime(invs[k].purchase_date).ok

\* enrich_investments_data(investments), the k-th lookup answering quotes[k]
enrich_investments_data(invs, quotes, now) ==
    [k \in 1..Len(invs) |-> EnrichOne(invs[k], quotes[k], now)]

\* GET /investments
investments_page_GET(quotes, now) ==
    /\ Len(quotes) = Len(investments)
    /\ resp' = IF EnrichRaises(investments)
               THEN [op |-> "investments", status |-> 500, quotes |-> quotes, now |-> now]
               ELSE [op |-> "investments", status |-> 200, quotes |-> quotes, now |-> now,
                     investments |-> enrich_investments_data(investments, quotes, now)]
    /\ UNCHANGED <<transactions, investments, nextId, pc, local, added, deleted>>

(***************************************************************************)
(* Writers served by concurrent threads: a handler loads the list, changes *)
(* its copy and saves it, and another thread may run between the load and  *)
(* the save.                                                               *)
(***************************************************************************)
Workers == {1, 2}

Idle == [op |-> "none", form |-> <<>>, id |-> 0, data |-> <<>>]

\* POST /transactions, line 176: transactions = load_data(TRANSACTIONS_FILE)
transactions_page_load(w, form) ==
    /\ pc[w].at = "idle"
    /\ pc[w].served < MaxReqs
    /\ Len(transactions) < MaxTrans
    /\ local' = [local EXCEPT ![w] = [op |-> "add", form |-> form, id |-> 0, data |-> transactions]]
    /\ pc' = [pc EXCEPT ![w] = [at |-> "loaded", served |-> pc[w].served]]
    /\ UNCHANGED <<transactions, investments, nextId, resp, added, deleted>>

\* POST /transactions, lines 180-191: append to the loaded list, save, acknowledge
transactions_page_save(w) ==
    /\ pc[w].at = "loaded"
    /\ local[w].op = "add"
    /\ nextId <= MaxIds
    /\ LET form == local[w].form
           new_trans == [id |-> nextId, date |-> form.date,
                         description |-> form.description, category |-> form.category,
                         type |-> form.type, amount |-> float(form.amount).val]
       IN  transactions' = Append(local[w].data, new_trans)
    /\ nextId' = nextId + 1
    /\ added' = added \cup {nextId}
    /\ local' = [local EXCEPT ![w] = Idle]
    /\ pc' = [pc EXCEPT ![w] = [at |-> "idle", served |-> pc[w].served + 1]]
    /\ UNCHANGED <<investments, resp, deleted>>

\* POST /delete_transaction/<id>, line 311: transactions = load_data(TRANSACTIONS_FILE)
delete_transaction_load(w, transaction_id) ==
    /\ pc[w].at = "idle"
    /\ pc[w].served < MaxReqs
    /\ local' = [local EXCEPT ![w] = [op |-> "delete", form |-> <<>>, id |-> transaction_id,
                                     data |-> transactions]]
    /\ pc' = [pc EXCEPT ![w] = [at |-> "loaded", served |-> pc[w].served]]
    /\ UNCHANGED <<transactions, investments, nextId, resp, added, deleted>>

\* POST /delete_transaction/<id>, lines 312-315: filter the loaded list, save, acknowledge
delete_transaction_save(w) ==
    /\ pc[w].at = "loaded"
    /\ local[w].op = "delete"
    /\ transactions' = WithoutId(local[w].data, local[w].id)
    /\ deleted' = deleted \cup {local[w].id}
    /\ local' = [local EXCEPT ![w] = Idle]
    /\ pc' = [pc EXCEPT ![w] = [at |-> "idle", served |-> pc[w].served + 1]]
    /\ UNCHANGED <<investments, nextId, resp, added>>

(***************************************************************************)
(* Responses.                                                              *)
(***************************************************************************)
NoResp == [op |-> "none"]

HistDates == {Str_2024_09_28, Str_2024_09_29, Str_2024_10_01, Str_2024_9_30, Str_2024_02_30, Str_bad}
HistTickers == {"", "N/A", "ABC"}
Raises == {"none", "first", "second"}

\* one call of get_historical_price on the inputs drawn by InitResolve
Resolve ==
    /\ resp.op = "resolve_args"
    /\ resp' = [op |-> "resolve", ticker |-> resp.ticker, date |-> resp.date,
                market |-> resp.market, raises |-> resp.raises,
                price |-> get_historical_price(resp.ticker, resp.date, resp.market, resp.raises)]
    /\ UNCHANGED <<transactions, investments, nextId, pc, local, added, deleted>>

InitResolve ==
    /\ transactions = <<>>
    /\ investments = <<>>
    /\ nextId = 1
    /\ pc = <<>>
    /\ local = <<>>
    /\ added = {}
    /\ deleted = {}
    /\ resp \in {[op |-> "resolve_args", ticker |-> t, date |-> d, market |-> m, raises |-> r] :
                    t \in HistTickers, d \in HistDates, m \in Markets, r \in Raises}

NextResolve == Resolve

SpecResolve == InitResolve /\ [][NextResolve]_vars

\* C5: for a weekend purchase date (real ticker, no lookup raising) the resolver
\* returns the close of the most recent session strictly before the date whenever
\* one lies in [date-4, date+2), never the close of a later session, and None only
\* when the expanded window holds no session at all.
C5_WeekendReturnsPriorSession ==
    (resp.op = "resolve" /\ resp.raises = "none" /\ resp.ticker = "ABC"
        /\ strptime(resp.date).ok /\ weekday(strptime(resp.date)) \in {5, 6})
    => LET day == toordinal(strptime(resp.date))
           sessions == {x \in (day - 4)..(day + 1) : resp.market[x] # None}
           prior == {x \in sessions : x < day}
           later == {x \in sessions : x > day}
           last == CHOOSE x \in prior : \A z \in prior : z <= x
       IN  /\ prior # {} => resp.price = resp.market[last]
           /\ \A x \in later : resp.price # resp.market[x]
           /\ resp.price = None => sessions = {}

(***************************************************************************)
(* The store under create and delete requests.                             *)
(***************************************************************************)
StoreTransForms ==
    [date : {Str_2024_10_01, Str_bad}, description : {"rent"}, category : {"Rent"},
     type : {"Expense"}, amount : {"25", "abc"}]

StoreInvForms ==
    [purchase_date : {Str_2024_09_28, Str_2024_10_01, Str_bad}, name : {"fund"},
     ticker : {"", "n/a", "abc"}, type : {"Stock"}, amount_invested : {"25", "abc"}]

\* no data at all; a Friday session that closed at 0; a Friday and a Tuesday session
StoreMarkets ==
    {[day \in MarketDays |-> None],
     [day \in MarketDays |-> IF day = toordinal(strptime(Str_2024_09_28)) - 1 THEN 0 ELSE None],
     [day \in MarketDays |-> IF day \in {toordinal(strptime(Str_2024_09_28)) - 1,
                                        toordinal(strptime(Str_2024_10_01))}
                             THEN CloseOf(day) ELSE None]}

Init ==
    /\ transactions = <<>>
    /\ investments = <<>>
    /\ nextId = 1
    /\ resp = NoResp
    /\ pc = <<>>
    /\ local = <<>>
    /\ added = {}
    /\ deleted = {}

Next ==
    \/ \E form \in StoreTransForms : transactions_page(form)
    \/ \E form \in StoreInvForms, market \in StoreMarkets, raises \in Raises :
          investments_page_POST(form, market, raises)
    \/ \E id \in 1..MaxIds : delete_transaction(id)
    \/ \E id \in 1..MaxIds : delete_investment(id)

Spec == Init /\ [][Next]_vars

\* C1: every investment held in the store has purchase_price > 0, so that
\* units * purchase_price = amount_invested; a create whose historical price
\* resolves to 0 stores nothing.
C1_StoredPriceIsPositive ==
    \A i \in 1..Len(investments) :
        /\ investments[i].purchase_price > 0
        /\ investments[i].units.num * investments[i].purchase_price
               = investments[i].amount_invested * investments[i].units.den

\* C2: a create-investment whose historical price resolution returned None is
\* refused and leaves both collections exactly as they were.
C2_UnresolvedPriceLeavesStore ==
    [][(resp'.op = "add_investment" /\ resp'.status = 302 /\ resp'.purchase_price = None)
          => (investments' = investments /\ transactions' = transactions /\ resp'.flash = "danger")]_vars

\* a create-investment was refused for want of a price while a record was held
C2_Witness ==
    /\ resp.op = "add_investment"
    /\ resp.status = 302
    /\ resp.purchase_price = None
    /\ Len(investments) > 0

\* C3: every stored transaction date and investment purchase_date parses as a
\* calendar date; a create carrying an unparsable date stores nothing.
C3_StoredDatesParse ==
    /\ \A i \in 1..Len(transactions) : strptime(transactions[i].date).ok
    /\ \A i \in 1..Len(investments) : strptime(investments[i].purchase_date).ok

(***************************************************************************)
(* The consolidated view over stores built by create requests.             *)
(***************************************************************************)
ViewTransForms ==
    {[date |-> Str_2024_10_01, description |-> "pay", category |-> "Salary",
      type |-> "Income", amount |-> "1500"],
     [date |-> Str_2024_10_01, description |-> "rent", category |-> "Rent",
      type |-> "Expense", amount |-> "1500"],
     [date |-> Str_2024_10_01, description |-> "refund", category |-> "Shopping",
      type |-> "Expense", amount |-> "-500"],
     [date |-> Str_2024_9_30, description |-> "rent", category |-> "Rent",
      type |-> "Expense", amount |-> "1500"],
     [date |-> Str_2024_9_30, description |-> "refund", category |-> "Shopping",
      type |-> "Expense", amount |-> "-500"],
     [date |-> Str_bad, description |-> "rent", category |-> "Rent",
      type |-> "Expense", amount |-> "1500"]}

ViewInvForms ==
    [purchase_date : {Str_2024_10_01, Str_2024_9_30}, name : {"deposit"},
     ticker : {"n/a"}, type : {"FD"}, amount_invested : {"40"}]

ViewStarts == {Str_empty, Str_2024_09_30, Str_2024_10_01, Str_bad}

ViewEnds == {Str_empty, Str_2024_09_30, Str_2024_10_01}

NoMarket == [day \in MarketDays |-> None]

NextView ==
    \/ \E form \in ViewTransForms : transactions_page(form)
    \/ \E form \in ViewInvForms : investments_page_POST(form, NoMarket, "none")
    \/ \E start_date_str \in ViewStarts, end_date_str \in ViewEnds :
          consolidated_view(start_date_str, end_date_str)

SpecView == Init /\ [][NextView]_vars

ViewDone == resp.op = "view" /\ resp.status = 200

\* the stored records an activity was made from
TransOf(a) == CHOOSE k \in 1..Len(transactions) : transactions[k].id = a.id
InvOf(a) == CHOOSE k \in 1..Len(investments) : investments[k].id = a.id

FeedIds(source) ==
    {resp.activities[k].id : k \in {j \in 1..Len(resp.activities) : resp.activities[j].source = source}}

\* calendar order of two parsed dates, by year, month, day
DateKey(dt) == dt.y * 10000 + dt.m * 100 + dt.d

\* C4: every activity carries a signed amount: +amount for an Income
\* transaction, -amount for every other transaction, -amount_invested for an
\* investment.
C4_ActivityAmountsAreSigned ==
    ViewDone =>
        \A k \in 1..Len(resp.activities) :
            LET a == resp.activities[k]
            IN  IF a.source = "transaction"
                THEN a.amount = (IF transactions[TransOf(a)].type = "Income"
                                 THEN transactions[TransOf(a)].amount
                                 ELSE -transactions[TransOf(a)].amount)
                ELSE a.amount = -investments[InvOf(a)].amount_invested

\* the claim's range condition on a record's date string
ClaimKeeps(date_str, start_str, end_str) ==
    /\ start_str = Str_empty \/ DateKey(strptime(date_str)) >= DateKey(strptime(start_str))
    /\ end_str = Str_empty \/ DateKey(strptime(date_str)) <= DateKey(strptime(end_str))

\* C6: the feed holds exactly the transactions and investments whose date d
\* satisfies (start absent or d >= start) and (end absent or d <= end), each once.
C6_FilterKeepsExactlyTheRange ==
    ViewDone =>
        /\ FeedIds("transaction") =
              {transactions[k].id : k \in {j \in 1..Len(transactions) :
                  ClaimKeeps(transactions[j].date, resp.start_date, resp.end_date)}}
        /\ FeedIds("investment") =
              {investments[k].id : k \in {j \in 1..Len(investments) :
                  ClaimKeeps(investments[j].purchase_date, resp.start_date, resp.end_date)}}
        /\ Len(resp.activities) = Cardinality(FeedIds("transaction")) + Cardinality(FeedIds("investment"))

\* a view with both bounds given kept a record dated exactly start and one dated
\* exactly end, and dropped a record outside the range
C6_Witness ==
    /\ ViewDone
    /\ resp.start_date # Str_empty
    /\ resp.end_date # Str_empty
    /\ \E k \in 1..Len(resp.activities) :
          DateKey(strptime(resp.activities[k].date)) = DateKey(strptime(resp.start_date))
    /\ \E k \in 1..Len(resp.activities) :
          DateKey(strptime(resp.activities[k].date)) = DateKey(strptime(resp.end_date))
    /\ Len(resp.activities) < Len(transactions) + Len(investments)

\* sums over the records that appear in the feed
FeedIncome ==
    SumOf([k \in 1..Len(transactions) |->
              IF transactions[k].id \in FeedIds("transaction") /\ transactions[k].type = "Income"
              THEN transactions[k].amount ELSE 0])

FeedExpenses ==
    SumOf([k \in 1..Len(transactions) |->
              IF transactions[k].id \in FeedIds("transaction") /\ transactions[k].type # "Income"
              THEN transactions[k].amount ELSE 0])

FeedInvested ==
    SumOf([k \in 1..Len(investments) |->
              IF investments[k].id \in FeedIds("investment")
              THEN investments[k].amount_invested ELSE 0])

\* the range of the request is given on both sides and spans every stored date
RangeSpansAll ==
    /\ resp.start_date # Str_empty
    /\ resp.end_date # Str_empty
    /\ \A k \in 1..Len(transactions) :
          /\ strptime(transactions[k].date).ok
          /\ DateKey(strptime(transactions[k].date)) >= DateKey(strptime(resp.start_date))
          /\ DateKey(strptime(transactions[k].date)) <= DateKey(strptime(resp.end_date))
    /\ \A k \in 1..Len(investments) :
          /\ strptime(investments[k].purchase_date).ok
          /\ DateKey(strptime(investments[k].purchase_date)) >= DateKey(strptime(resp.start_date))
          /\ DateKey(strptime(investments[k].purchase_date)) <= DateKey(strptime(resp.end_date))

Unranged == Consolidate(transactions, investments, Str_empty, Str_empty)

SpanningTotalsAgree ==
    RangeSpansAll =>
        /\ resp.total_income = Unranged.total_income
        /\ resp.total_expenses = Unranged.total_expenses
        /\ resp.total_invested = Unranged.total_invested

MergeIndex(a) ==
    IF a.source = "transaction" THEN TransOf(a) ELSE Len(transactions) + InvOf(a)

\* C9: the feed is ordered by date descending, and activities that share a
\* date keep their merge order.
C9_FeedIsDateDescendingStable ==
    ViewDone =>
        \A k \in 1..Len(resp.activities), l \in 1..Len(resp.activities) :
            LET dk == strptime(resp.activities[k].date)
                dl == strptime(resp.activities[l].date)
            IN  (k < l /\ dk.ok /\ dl.ok) =>
                    /\ DateKey(dk) >= DateKey(dl)
                    /\ DateKey(dk) = DateKey(dl) =>
                           MergeIndex(resp.activities[k]) < MergeIndex(resp.activities[l])

(***************************************************************************)
(* The investments page over stores built by create requests.              *)
(***************************************************************************)
EnrichInvForms ==
    [purchase_date : {Str_2024_10_01, Str_bad}, name : {"fund"},
     ticker : {"n/a", "abc"}, type : {"Stock", "FD"}, amount_invested : {"40"}]

\* a Tuesday session for the real ticker
TuesdayMarket ==
    [day \in MarketDays |-> IF day = toordinal(strptime(Str_2024_10_01)) THEN 2000 ELSE None]

Nows == {[y |-> 2024, m |-> 10], [y |-> 2025, m |-> 11]}

QuoteLists == UNION {[1..n -> Quotes] : n \in 0..MaxInv}

NextEnrich ==
    \/ \E form \in EnrichInvForms : investments_page_POST(form, TuesdayMarket, "none")
    \/ \E id \in 1..MaxIds : delete_investment(id)
    \/ \E quotes \in QuoteLists, now \in Nows : investments_page_GET(quotes, now)

SpecEnrich == Init /\ [][NextEnrich]_vars

\* the k-th live lookup of the last investments page gave no price
LiveUnavailable(k) ==
    /\ investments[k].ticker # ""
    /\ Lower(investments[k].ticker) # "n/a"
    /\ resp.quotes[k].raises \/ resp.quotes[k].price \in {None, 0}

\* the quotes of the last page with the k-th lookup succeeding instead
WithQuote(k) == [resp.quotes EXCEPT ![k] = [raises |-> FALSE, price |-> 1500]]

\* C8: enrich over N investments always returns N enriched records in the same
\* order; a position whose live price is unavailable gets current_price 0,
\* current_value 0 and gain_loss = -amount_invested, and every other position
\* is enriched as if that lookup had succeeded.
C8_PriceFailureIsConfined ==
    resp.op = "investments" =>
        /\ resp.status = 200
        /\ Len(resp.investments) = Len(investments)
        /\ \A k \in 1..Len(investments) :
              /\ resp.investments[k].id = investments[k].id
              /\ LiveUnavailable(k) =>
                    /\ resp.investments[k].current_price = 0
                    /\ resp.investments[k].current_value = 0
                    /\ resp.investments[k].gain_loss = -investments[k].amount_invested
                    /\ \A j \in 1..Len(investments) \ {k} :
                          resp.investments[j] =
                              enrich_investments_data(investments, WithQuote(k), resp.now)[j]

\* every page that was rendered satisfies the rest of the statement: a page
\* fails only on a stored purchase_date that does not parse
PriceFailureConfinedWhenRendered ==
    (resp.op = "investments" /\ resp.status = 200) =>
        /\ Len(resp.investments) = Len(investments)
        /\ \A k \in 1..Len(investments) :
              /\ resp.investments[k].id = investments[k].id
              /\ LiveUnavailable(k) =>
                    /\ resp.investments[k].current_price = 0
                    /\ resp.investments[k].current_value = 0
                    /\ resp.investments[k].gain_loss = -investments[k].amount_invested
                    /\ \A j \in 1..Len(investments) \ {k} :
                          resp.investments[j] =
                              enrich_investments_data(investments, WithQuote(k), resp.now)[j]

(***************************************************************************)
(* Two request threads writing the transaction collection.                 *)
(***************************************************************************)
ConcForms ==
    {[date |-> Str_2024_10_01, description |-> "pay", category |-> "Salary",
      type |-> "Income", amount |-> "1500"],
     [date |-> Str_2024_09_30, description |-> "rent", category |-> "Rent",
      type |-> "Expense", amount |-> "25"]}

InitConc ==
    /\ transactions = <<>>
    /\ investments = <<>>
    /\ nextId = 1
    /\ resp = NoResp
    /\ pc = [w \in Workers |-> [at |-> "idle", served |-> 0]]
    /\ local = [w \in Workers |-> Idle]
    /\ added = {}
    /\ deleted = {}

NextConc ==
    \/ \E w \in Workers, form \in ConcForms : transactions_page_load(w, form)
    \/ \E w \in Workers : transactions_page_save(w)
    \/ \E w \in Workers, id \in added : delete_transaction_load(w, id)
    \/ \E w \in Workers : delete_transaction_save(w)

SpecConc == InitConc /\ [][NextConc]_vars

\* C10: once no request is in flight the stored collection is what the
\* acknowledged requests give in a serial order: every acknowledged add is
\* present unless its id was deleted, and no deleted id is present.
C10_NoWriteIsLost ==
    (\A w \in Workers : pc[w].at = "idle") =>
        {transactions[k].id : k \in 1..Len(transactions)} = added \ deleted

====
